---- MODULE Spec2Model ----
(***************************************************************************)
(* Tasks/Users REST API: the bookkeeping that keeps User.pendingTasks in   *)
(* step with Task.assignedUser / Task.completed.                           *)
(*                                                                         *)
(* Encoding.  Document ids are the integers 1..; the integer 0 stands for  *)
(* the empty string "" (and any other falsy value), NonString for a truthy *)
(* value that is not a string.  Task fields that no handler reads back     *)
(* (name, description, deadline, dateCreated) are not part of the state.   *)
(* Ids a caller sends are well-formed; a list entry is a task id.          *)
(* The repository holds two revisions of the users router, routes/users.js *)
(* (unnamed/part_000 has the same handlers) and unnamed/part_001, whose    *)
(* POST /users runs in a transaction; `usersRouter` records which one is   *)
(* mounted, and never changes.  In Spec a handler runs from its first line *)
(* to its response in one step; SpecConc runs POST /users of                *)
(* routes/users.js one store call at a time (`posting` is that request),    *)
(* with the other requests served in between.  SpecPutRace and             *)
(* SpecDeleteRace run PUT /tasks/:id, POST /tasks and DELETE /users/:id one *)
(* store call at a time, two requests at once (`running` holds them).       *)
(***************************************************************************)
EXTENDS Integers, Sequences, FiniteSets, TLC

\* ------------------------------------------------------------------ bounds
\* requests served in one behaviour; entries in a caller-supplied list
MaxRequests == 3
MaxList  == 2

\* ------------------------------------------------------------- value sets
EmptyId  == 0
NonString == 0 - 1
Unassigned == "unassigned"
Names    == {"ann", Unassigned}
Emails   == {"a@x", "b@x"}
Missing  == ""
NoField  == "<absent>"
Absent   == <<0 - 1>>
Plain    == "routes/users.js"
Tx       == "unnamed/part_001"

VARIABLES users, tasks, nextUser, nextTask, usersRouter, last, requests,
          posting, running

vars == <<users, tasks, nextUser, nextTask, usersRouter, last, requests,
          posting, running>>

\* ---------------------------------------------------------------- helpers
RECURSIVE FilterSeq(_, _)
\* s with every entry equal to x taken out ($pull of one value)
FilterSeq(s, x) ==
  IF s = <<>> THEN <<>>
  ELSE IF Head(s) = x THEN FilterSeq(Tail(s), x)
       ELSE <<Head(s)>> \o FilterSeq(Tail(s), x)

RECURSIVE PullAll(_, _)
\* s with every entry that is in the set xs taken out ($pull with $in)
PullAll(s, xs) ==
  IF s = <<>> THEN <<>>
  ELSE IF Head(s) \in xs THEN PullAll(Tail(s), xs)
       ELSE <<Head(s)>> \o PullAll(Tail(s), xs)

Range(s) == {s[i] : i \in 1..Len(s)}

\* $addToSet of one value: appended only when not already an entry
AddToSet(s, x) == IF x \in Range(s) THEN s ELSE Append(s, x)

RECURSIVE AddEach(_, _)
\* $addToSet with $each: the values of xs, in order
AddEach(s, xs) ==
  IF xs = <<>> THEN s ELSE AddEach(AddToSet(s, Head(xs)), Tail(xs))

RECURSIVE asUniqueIdStrings(_)
\* [...new Set(arr.filter(Boolean).map(String))]: falsy entries dropped,
\* first occurrences kept in order
asUniqueIdStrings(arr) ==
  IF arr = <<>> THEN <<>>
  ELSE LET rest == asUniqueIdStrings(FilterSeq(Tail(arr), Head(arr)))
       IN IF Head(arr) = EmptyId THEN rest ELSE <<Head(arr)>> \o rest

UserDoc(n, e, p) == [name |-> n, email |-> e, pendingTasks |-> p]
TaskDoc(c, u, un) == [completed |-> c, assignedUser |-> u, assignedUserName |-> un]

\* What the last request was and what the handler answered or held:
\* op, HTTP status, message; id is the :id of the request or the id of the
\* created document; prevUser/prevCompleted are the fields of the task a
\* handler loaded before writing (prev, deleted); matched is the number of
\* tasks selected by the handler's bulk task update.
Res(op, status, message, id, prevUser, prevCompleted, matched) ==
  [op |-> op, status |-> status, message |-> message, id |-> id,
   prevUser |-> prevUser, prevCompleted |-> prevCompleted, matched |-> matched]
Err(op, status, message, id) == Res(op, status, message, id, EmptyId, FALSE, 0)

\* ------------------------------------------------------- syncPendingTasks
\* PullFromUsers with a filter that matches no entry: nothing is pulled
PullFromUsers_None(us, ids, tid) == us

\* User.updateMany({_id: {$in: ids}}, {$pull: {pendingTasks: tid}})
PullFromUsers(us, ids, tid) ==
  [u \in DOMAIN us |->
     IF u \in ids
     THEN [us[u] EXCEPT !.pendingTasks = FilterSeq(@, tid)]
     ELSE us[u]]

\* User.updateOne({_id: uid}, {$addToSet: {pendingTasks: tid}})
AddToUser(us, uid, tid) ==
  [u \in DOMAIN us |->
     IF u = uid
     THEN [us[u] EXCEPT !.pendingTasks = AddToSet(@, tid)]
     ELSE us[u]]

\* syncPendingTasks whose add step does not look at task.completed
syncPendingTasks_AddCompleted(us, tid, completed, addForUserId, removeFromUserIds) ==
  LET toRemove == asUniqueIdStrings(removeFromUserIds)
      us1 == IF Len(toRemove) > 0
             THEN PullFromUsers(us, Range(toRemove), tid)
             ELSE us
  IN IF addForUserId # EmptyId THEN AddToUser(us1, addForUserId, tid) ELSE us1

\* syncPendingTasks with the add step ahead of the removal step
syncPendingTasks_AddFirst(us, tid, completed, addForUserId, removeFromUserIds) ==
  LET toRemove == asUniqueIdStrings(removeFromUserIds)
      us1 == IF addForUserId # EmptyId /\ ~completed
             THEN AddToUser(us, addForUserId, tid)
             ELSE us
  IN IF Len(toRemove) > 0 THEN PullFromUsers(us1, Range(toRemove), tid) ELSE us1

\* syncPendingTasks without its add step
syncPendingTasks_NoAdd(us, tid, completed, addForUserId, removeFromUserIds) ==
  LET toRemove == asUniqueIdStrings(removeFromUserIds)
  IN IF Len(toRemove) > 0 THEN PullFromUsers(us, Range(toRemove), tid) ELSE us

\* syncPendingTasks without its removal step
syncPendingTasks_NoPull(us, tid, completed, addForUserId, removeFromUserIds) ==
  IF addForUserId # EmptyId /\ ~completed
  THEN AddToUser(us, addForUserId, tid)
  ELSE us

syncPendingTasks(us, tid, completed, addForUserId, removeFromUserIds) ==
  LET toRemove == asUniqueIdStrings(removeFromUserIds)
      us1 == IF Len(toRemove) > 0
             THEN PullFromUsers(us, Range(toRemove), tid)
             ELSE us
  IN IF addForUserId # EmptyId /\ ~completed
     THEN AddToUser(us1, addForUserId, tid)
     ELSE us1

\* no POST /users is between two of its store calls
Idle == [pc |-> "idle", uid |-> EmptyId, name |-> Missing, email |-> Missing,
         list |-> <<>>, matched |-> 0]

\* two requests can be between their store calls at once
Slots == 1..2

\* the slot has served no request
NoRequest == [op |-> "none", pc |-> "none", id |-> 0, completed |-> FALSE,
              assignedUser |-> EmptyId, assignedUserName |-> Unassigned,
              prevUser |-> EmptyId, status |-> 0]

\* ------------------------------------------------------------------- Init
Init ==
  /\ users = <<>>
  /\ tasks = <<>>
  /\ nextUser = 1
  /\ nextTask = 1
  /\ usersRouter \in {Plain, Tx}
  /\ requests = 0
  /\ last = Err("none", 0, "", 0)
  /\ posting = Idle
  /\ running = [s \in Slots |-> NoRequest]

\* IsAssignable with a typeof test no value passes
IsAssignable_Never(assignedUser) == FALSE

\* assignedUser && typeof assignedUser === 'string'
IsAssignable(assignedUser) == assignedUser # EmptyId /\ assignedUser # NonString

\* ResolveName that keeps the assignedUserName of the request body
ResolveName_FromBody(us, assignedUser, assignedUserName) == assignedUserName

\* assignedUserName = user.name for an assignable assignedUser (the user has
\* been found), 'unassigned' otherwise; the value of the body is overwritten
\* on both branches
ResolveName(us, assignedUser, assignedUserName) ==
  IF IsAssignable(assignedUser) THEN us[assignedUser].name ELSE Unassigned

\* one more request is served, from its first line to its response
Serve == requests' = requests + 1 /\ UNCHANGED <<posting, running>>

\* ------------------------------------------------------------ POST /tasks
TasksPost(hasNameDeadline, completed, assignedUser, assignedUserName) ==
  /\ Serve
  /\ IF ~hasNameDeadline
     THEN /\ last' = Err("POST /tasks", 400, "Name and deadline are required", 0)
          /\ UNCHANGED <<users, tasks, nextTask>>
     ELSE IF IsAssignable(assignedUser) /\ assignedUser \notin DOMAIN users
     THEN /\ last' = Err("POST /tasks", 400, "assignedUser not found", 0)
          /\ UNCHANGED <<users, tasks, nextTask>>
     ELSE LET au  == IF IsAssignable(assignedUser) THEN assignedUser ELSE EmptyId
              aun == ResolveName(users, assignedUser, assignedUserName)
              tid == nextTask
          IN /\ tasks' = [t \in DOMAIN tasks \cup {tid} |->
                            IF t = tid THEN TaskDoc(completed, au, aun) ELSE tasks[t]]
             /\ nextTask' = nextTask + 1
             /\ users' = IF au # EmptyId
                         THEN syncPendingTasks(users, tid, completed, au, <<>>)
                         ELSE users
             /\ last' = Err("POST /tasks", 201, "Task created", tid)
  /\ UNCHANGED <<nextUser, usersRouter>>

\* -------------------------------------------------------- PUT /tasks/:id
TasksPut(id, hasNameDeadline, completed, assignedUser, assignedUserName) ==
  /\ Serve
  /\ IF ~hasNameDeadline
     THEN /\ last' = Err("PUT /tasks", 400, "Name and deadline are required", id)
          /\ UNCHANGED <<users, tasks>>
     ELSE IF id \notin DOMAIN tasks
     THEN /\ last' = Err("PUT /tasks", 404, "Task not found", id)
          /\ UNCHANGED <<users, tasks>>
     ELSE IF IsAssignable(assignedUser) /\ assignedUser \notin DOMAIN users
     THEN /\ last' = Err("PUT /tasks", 400, "assignedUser not found", id)
          /\ UNCHANGED <<users, tasks>>
     ELSE LET prev == tasks[id]
              au  == IF IsAssignable(assignedUser) THEN assignedUser ELSE EmptyId
              aun == ResolveName(users, assignedUser, assignedUserName)
              updated == TaskDoc(completed, au, aun)
              prevUserId == prev.assignedUser
              nextUserId == updated.assignedUser
              removeFrom ==
                (IF prevUserId # EmptyId THEN <<prevUserId>> ELSE <<>>)
                \o (IF updated.completed /\ nextUserId # EmptyId
                    THEN <<nextUserId>> ELSE <<>>)
              addFor == IF ~updated.completed /\ nextUserId # EmptyId
                        THEN nextUserId ELSE EmptyId
          IN /\ tasks' = [tasks EXCEPT ![id] = updated]
             /\ users' = syncPendingTasks(users, id, updated.completed,
                                          addFor, removeFrom)
             /\ last' = Res("PUT /tasks", 200, "OK", id,
                            prev.assignedUser, prev.completed, 0)
  /\ UNCHANGED <<nextUser, nextTask, usersRouter>>

\* ----------------------------------------------------- DELETE /tasks/:id
TasksDelete(id) ==
  /\ Serve
  /\ IF id \notin DOMAIN tasks
     THEN /\ last' = Err("DELETE /tasks", 404, "Task not found", id)
          /\ UNCHANGED <<users, tasks>>
     ELSE LET deleted == tasks[id]
          IN /\ tasks' = [t \in DOMAIN tasks \ {id} |-> tasks[t]]
             /\ users' = IF deleted.assignedUser # EmptyId
                         THEN PullFromUsers(users, {deleted.assignedUser}, id)
                         ELSE users
             /\ last' = Res("DELETE /tasks", 204, "", id,
                            deleted.assignedUser, deleted.completed, 0)
  /\ UNCHANGED <<nextUser, nextTask, usersRouter>>

\* AssignTasks that also un-assigns the tasks of uid left out of ids
AssignTasks_Reconciling(ts, ids, uid, uname) ==
  [t \in DOMAIN ts |->
     IF t \in ids
     THEN [ts[t] EXCEPT !.assignedUser = uid, !.assignedUserName = uname]
     ELSE IF ts[t].assignedUser = uid
     THEN [ts[t] EXCEPT !.assignedUser = EmptyId, !.assignedUserName = Unassigned]
     ELSE ts[t]]

\* ------------------------------------- a store call of the sync step fails
\* the number of store calls syncPendingTasks issues: the bulk pull when the
\* removal list is not empty, the add when it applies
SyncCalls(completed, addForUserId, removeFromUserIds) ==
  (IF Len(asUniqueIdStrings(removeFromUserIds)) > 0 THEN 1 ELSE 0)
    + (IF addForUserId # EmptyId /\ ~completed THEN 1 ELSE 0)

\* syncPendingTasksStopped where the failed call is issued again and succeeds
syncPendingTasksStopped_Retried(us, tid, completed, addForUserId, removeFromUserIds, done) ==
  syncPendingTasks(us, tid, completed, addForUserId, removeFromUserIds)

\* the users after `done` store calls of syncPendingTasks went through and the
\* next one threw: the handler's catch answers 500 and issues no further call
syncPendingTasksStopped(us, tid, completed, addForUserId, removeFromUserIds, done) ==
  IF done = 0 THEN us
  ELSE PullFromUsers(us, Range(asUniqueIdStrings(removeFromUserIds)), tid)

\* POST /tasks: Task.create has gone through, syncPendingTasks throws
TasksPostStops(completed, assignedUser, assignedUserName, done) ==
  /\ Serve
  /\ IsAssignable(assignedUser) /\ assignedUser \in DOMAIN users
  /\ done < SyncCalls(completed, assignedUser, <<>>)
  /\ LET aun == ResolveName(users, assignedUser, assignedUserName)
         tid == nextTask
     IN /\ tasks' = [t \in DOMAIN tasks \cup {tid} |->
                       IF t = tid THEN TaskDoc(completed, assignedUser, aun)
                       ELSE tasks[t]]
        /\ nextTask' = nextTask + 1
        /\ users' = syncPendingTasksStopped(users, tid, completed,
                                            assignedUser, <<>>, done)
        /\ last' = Err("POST /tasks", 500, "Server error", tid)
  /\ UNCHANGED <<nextUser, usersRouter>>

\* PUT /tasks/:id: Task.findByIdAndUpdate has gone through, syncPendingTasks
\* throws at its first or at its second store call
TasksPutStops(id, completed, assignedUser, assignedUserName, done) ==
  /\ Serve
  /\ id \in DOMAIN tasks
  /\ IsAssignable(assignedUser) => assignedUser \in DOMAIN users
  /\ LET prev == tasks[id]
         au  == IF IsAssignable(assignedUser) THEN assignedUser ELSE EmptyId
         aun == ResolveName(users, assignedUser, assignedUserName)
         updated == TaskDoc(completed, au, aun)
         prevUserId == prev.assignedUser
         nextUserId == updated.assignedUser
         removeFrom ==
           (IF prevUserId # EmptyId THEN <<prevUserId>> ELSE <<>>)
           \o (IF updated.completed /\ nextUserId # EmptyId
               THEN <<nextUserId>> ELSE <<>>)
         addFor == IF ~updated.completed /\ nextUserId # EmptyId
                   THEN nextUserId ELSE EmptyId
     IN /\ done < SyncCalls(updated.completed, addFor, removeFrom)
        /\ tasks' = [tasks EXCEPT ![id] = updated]
        /\ users' = syncPendingTasksStopped(users, id, updated.completed,
                                            addFor, removeFrom, done)
        /\ last' = Res("PUT /tasks", 500, "Server error", id,
                       prev.assignedUser, prev.completed, 0)
  /\ UNCHANGED <<nextUser, nextTask, usersRouter>>

\* DELETE /tasks/:id: Task.findByIdAndDelete has gone through, the pull throws
TasksDeleteStops(id) ==
  /\ Serve
  /\ id \in DOMAIN tasks
  /\ tasks[id].assignedUser # EmptyId
  /\ tasks' = [t \in DOMAIN tasks \ {id} |-> tasks[t]]
  /\ users' = users
  /\ last' = Res("DELETE /tasks", 500, "Server error", id,
                 tasks[id].assignedUser, tasks[id].completed, 0)
  /\ UNCHANGED <<nextUser, nextTask, usersRouter>>

\* Task.updateMany({_id: {$in: ids}}, {$set: {assignedUser, assignedUserName}})
AssignTasks(ts, ids, uid, uname) ==
  [t \in DOMAIN ts |->
     IF t \in ids
     THEN [ts[t] EXCEPT !.assignedUser = uid, !.assignedUserName = uname]
     ELSE ts[t]]

\* the same with completed: false in the $set
AssignTasksPending(ts, ids, uid, uname) ==
  [t \in DOMAIN ts |->
     IF t \in ids THEN TaskDoc(FALSE, uid, uname) ELSE ts[t]]

\* User.updateMany({_id: {$in: ids}}, {$pull: {pendingTasks: {$in: tids}}})
PullManyFromUsers(us, ids, tids) ==
  [u \in DOMAIN us |->
     IF u \in ids
     THEN [us[u] EXCEPT !.pendingTasks = PullAll(@, tids)]
     ELSE us[u]]

\* User.findOne({ email })
EmailTaken(us, e) == \E u \in DOMAIN us : us[u].email = e

\* --------------------------------------- POST /users (routes/users.js)
UsersPostPlain(name, email, pendingTasks) ==
  /\ usersRouter = Plain
  /\ Serve
  /\ IF name = Missing \/ email = Missing
     THEN /\ last' = Err("POST /users", 400, "Name and email are required", 0)
          /\ UNCHANGED <<users, tasks, nextUser>>
     ELSE IF EmailTaken(users, email)
     THEN /\ last' = Err("POST /users", 400, "User with same email already exists", 0)
          /\ UNCHANGED <<users, tasks, nextUser>>
     ELSE LET uid == nextUser
              stored == IF pendingTasks = Absent THEN <<>> ELSE pendingTasks
              ids == IF pendingTasks = Absent THEN {} ELSE Range(pendingTasks)
          IN /\ users' = [u \in DOMAIN users \cup {uid} |->
                            IF u = uid THEN UserDoc(name, email, stored)
                            ELSE users[u]]
             /\ nextUser' = nextUser + 1
             /\ tasks' = AssignTasks(tasks, ids, uid, name)
             /\ last' = Res("POST /users", 201, "User created", uid, EmptyId, FALSE,
                            Cardinality(ids \cap DOMAIN tasks))
  /\ UNCHANGED <<nextTask, usersRouter>>

\* -------------- POST /users (routes/users.js), one store call at a time
\* the checks pass and user.save() goes through
UsersPostPlainSave(name, email, pendingTasks) ==
  /\ usersRouter = Plain
  /\ posting = Idle
  /\ requests' = requests + 1
  /\ name # Missing /\ email # Missing
  /\ ~EmailTaken(users, email)
  /\ LET uid == nextUser
         stored == IF pendingTasks = Absent THEN <<>> ELSE pendingTasks
     IN /\ users' = [u \in DOMAIN users \cup {uid} |->
                       IF u = uid THEN UserDoc(name, email, stored)
                       ELSE users[u]]
        /\ nextUser' = nextUser + 1
        /\ posting' = [pc |-> "saved", uid |-> uid, name |-> name,
                       email |-> email, list |-> stored, matched |-> 0]
  /\ UNCHANGED <<tasks, nextTask, usersRouter, running, last>>

\* Task.updateMany on the listed tasks, with the id and name of the saved user
UsersPostPlainAssign ==
  /\ posting.pc = "saved"
  /\ tasks' = AssignTasks(tasks, Range(posting.list), posting.uid, posting.name)
  /\ posting' = [posting EXCEPT
                   !.pc = "assigned",
                   !.matched = Cardinality(Range(posting.list) \cap DOMAIN tasks)]
  /\ UNCHANGED <<users, nextUser, nextTask, usersRouter, running, last, requests>>

\* res.status(201)
UsersPostPlainRespond ==
  /\ posting.pc = "assigned"
  /\ last' = Res("POST /users", 201, "User created", posting.uid, EmptyId,
                 FALSE, posting.matched)
  /\ posting' = Idle
  /\ UNCHANGED <<users, tasks, nextUser, nextTask, usersRouter, running, requests>>

\* ----------------------------------------- POST /users (unnamed/part_001)
UsersPostTx(name, email, pendingTasks) ==
  /\ usersRouter = Tx
  /\ Serve
  /\ IF name = Missing \/ email = Missing
     THEN /\ last' = Err("POST /users", 400, "Name and email are required", 0)
          /\ UNCHANGED <<users, tasks, nextUser>>
     ELSE IF EmailTaken(users, email)
     THEN /\ last' = Err("POST /users", 400, "User with same email already exists", 0)
          /\ UNCHANGED <<users, tasks, nextUser>>
     ELSE LET tids == IF pendingTasks = Absent THEN <<>>
                      ELSE asUniqueIdStrings(pendingTasks)
              uid == nextUser
              users1 == [u \in DOMAIN users \cup {uid} |->
                           IF u = uid THEN UserDoc(name, email, <<>>)
                           ELSE users[u]]
              found == Range(tids) \cap DOMAIN tasks
          IN IF Len(tids) = 0
             THEN /\ users' = users1
                  /\ nextUser' = nextUser + 1
                  /\ UNCHANGED tasks
                  /\ last' = Err("POST /users", 201, "User created", uid)
             ELSE IF Cardinality(found) # Len(tids)
             THEN \* thrown inside the transaction body: the transaction aborts
                  /\ last' = Err("POST /users", 400,
                        "Invalid pendingTasks: one or more task IDs do not exist", 0)
                  /\ UNCHANGED <<users, tasks, nextUser>>
             ELSE IF \E t \in found : tasks[t].completed
             THEN /\ last' = Err("POST /users", 400,
                        "Invalid pendingTasks: contains completed task(s)", 0)
                  /\ UNCHANGED <<users, tasks, nextUser>>
             ELSE LET oldUserIds == {tasks[t].assignedUser : t \in found}
                                    \ {EmptyId}
                      users2 == IF oldUserIds # {}
                                THEN PullManyFromUsers(users1, oldUserIds, found)
                                ELSE users1
                  IN /\ tasks' = AssignTasksPending(tasks, found, uid, name)
                     /\ users' = [users2 EXCEPT
                                    ![uid].pendingTasks = AddEach(@, tids)]
                     /\ nextUser' = nextUser + 1
                     /\ last' = Res("POST /users", 201, "User created", uid,
                                    EmptyId, FALSE, Cardinality(found))
  /\ UNCHANGED <<nextTask, usersRouter>>

\* --------- POST /users (unnamed/part_001), the transaction as a step of
\* its own: it runs to its end, or a store call fails
\* Abort that leaves the writes of the session in the store
Abort_KeepsWrites(before, inSession) == inSession

\* session.withTransaction rethrows what its callback or the commit throws
\* after aborting: the writes made in the session are discarded
Abort(before, inSession) == before

\* users as the session sees them after `done` of the write calls of the
\* transaction body: User.create, Task.updateMany, the $pull from the old
\* owners, the $addToSet on the new user
TxUsers(name, email, tids, done) ==
  LET uid == nextUser
      found == Range(tids) \cap DOMAIN tasks
      oldUserIds == {tasks[t].assignedUser : t \in found} \ {EmptyId}
      users1 == [u \in DOMAIN users \cup {uid} |->
                   IF u = uid THEN UserDoc(name, email, <<>>) ELSE users[u]]
      users2 == IF oldUserIds # {}
                THEN PullManyFromUsers(users1, oldUserIds, found)
                ELSE users1
  IN IF done = 0 THEN users
     ELSE IF done < 3 THEN users1
     ELSE IF done = 3 THEN users2
     ELSE [users2 EXCEPT ![uid].pendingTasks = AddEach(@, tids)]

\* tasks as the session sees them
TxTasks(name, tids, done) ==
  IF done < 2 THEN tasks
  ELSE AssignTasksPending(tasks, Range(tids) \cap DOMAIN tasks, nextUser, name)

\* the request's list as the handler normalises it
TxIds(pendingTasks) ==
  IF pendingTasks = Absent THEN <<>> ELSE asUniqueIdStrings(pendingTasks)

\* every id names a stored task and none of them is completed
ValidBatch(tids) ==
  /\ Cardinality(Range(tids) \cap DOMAIN tasks) = Len(tids)
  /\ \A t \in Range(tids) \cap DOMAIN tasks : ~tasks[t].completed

\* The checks ahead of the transaction pass and the session is open.
UsersPostTxBegin(name, email, pendingTasks) ==
  /\ usersRouter = Tx
  /\ posting = Idle
  /\ requests' = requests + 1
  /\ name # Missing /\ email # Missing
  /\ ~EmailTaken(users, email)
  /\ posting' = [pc |-> "tx", uid |-> nextUser, name |-> name, email |-> email,
                 list |-> pendingTasks, matched |-> 0]
  /\ UNCHANGED <<users, tasks, nextUser, nextTask, usersRouter, running, last>>

\* No store call fails: the body runs to its end and the transaction
\* commits, or the body throws its own error (status 400) after User.create
\* and Task.find, and the transaction aborts.
UsersPostTxRuns ==
  /\ posting.pc = "tx"
  /\ LET tids == TxIds(posting.list)
         found == Range(tids) \cap DOMAIN tasks
         all == IF Len(tids) > 0 THEN 4 ELSE 1
     IN IF Len(tids) > 0 /\ Cardinality(found) # Len(tids)
        THEN /\ users' = Abort(users, TxUsers(posting.name, posting.email, tids, 1))
             /\ tasks' = Abort(tasks, TxTasks(posting.name, tids, 1))
             /\ last' = Err("POST /users", 400,
                   "Invalid pendingTasks: one or more task IDs do not exist", 0)
             /\ UNCHANGED nextUser
        ELSE IF Len(tids) > 0 /\ \E t \in found : tasks[t].completed
        THEN /\ users' = Abort(users, TxUsers(posting.name, posting.email, tids, 1))
             /\ tasks' = Abort(tasks, TxTasks(posting.name, tids, 1))
             /\ last' = Err("POST /users", 400,
                   "Invalid pendingTasks: contains completed task(s)", 0)
             /\ UNCHANGED nextUser
        ELSE /\ users' = TxUsers(posting.name, posting.email, tids, all)
             /\ tasks' = TxTasks(posting.name, tids, all)
             /\ nextUser' = nextUser + 1
             /\ last' = Res("POST /users", 201, "User created", nextUser,
                            EmptyId, FALSE, Cardinality(found))
  /\ posting' = Idle
  /\ UNCHANGED <<nextTask, usersRouter, running, requests>>

\* `done` write calls of the body go through and the next store call, or the
\* commit, throws an error without a status.
UsersPostTxAborts(done) ==
  /\ posting.pc = "tx"
  /\ LET tids == TxIds(posting.list)
     IN /\ done \in 0..4
        /\ done > 1 => (Len(tids) > 0 /\ ValidBatch(tids))
        /\ users' = Abort(users, TxUsers(posting.name, posting.email, tids, done))
        /\ tasks' = Abort(tasks, TxTasks(posting.name, tids, done))
        /\ last' = Res("POST /users", 500, "Server error", 0, EmptyId, FALSE,
                       Cardinality(Range(tids) \cap DOMAIN tasks))
  /\ posting' = Idle
  /\ UNCHANGED <<nextUser, nextTask, usersRouter, running, requests>>

\* The transaction commits and User.findById, issued after it, throws.
UsersPostTxReadFails ==
  /\ posting.pc = "tx"
  /\ LET tids == TxIds(posting.list)
         all == IF Len(tids) > 0 THEN 4 ELSE 1
     IN /\ ValidBatch(tids)
        /\ users' = TxUsers(posting.name, posting.email, tids, all)
        /\ tasks' = TxTasks(posting.name, tids, all)
        /\ nextUser' = nextUser + 1
        /\ last' = Res("POST /users", 500, "Server error", nextUser, EmptyId,
                       FALSE, Cardinality(Range(tids) \cap DOMAIN tasks))
  /\ posting' = Idle
  /\ UNCHANGED <<nextTask, usersRouter, running, requests>>

\* ------- PUT /tasks/:id, POST /tasks, DELETE /users/:id, a store call a step
\* The request of slot s has answered with status st.
Answered(s, st) == [running[s] EXCEPT !.pc = "done", !.status = st]

\* removeFromUserIds and addForUserId as PUT /tasks/:id passes them
RemoveFromOf(r) ==
  (IF r.prevUser # EmptyId THEN <<r.prevUser>> ELSE <<>>)
  \o (IF r.completed /\ r.assignedUser # EmptyId THEN <<r.assignedUser>> ELSE <<>>)

AddForOf(r) ==
  IF ~r.completed /\ r.assignedUser # EmptyId THEN r.assignedUser ELSE EmptyId

\* where the request goes after its task write: the pull of the sync step,
\* its add, or the response
AfterWrite(r, toRemove, st) ==
  IF Len(toRemove) > 0 THEN [r EXCEPT !.pc = "pull"]
  ELSE IF AddForOf(r) # EmptyId THEN [r EXCEPT !.pc = "add"]
  ELSE [r EXCEPT !.pc = "done", !.status = st]

\* PUT /tasks/:id arrives with name and deadline; Task.findById reads prev.
TasksPutRead(s, id, completed, assignedUser) ==
  /\ running[s] = NoRequest
  /\ running' = [running EXCEPT ![s] =
       IF id \notin DOMAIN tasks
       THEN [NoRequest EXCEPT !.op = "PUT /tasks", !.pc = "done", !.id = id,
                              !.status = 404]
       ELSE [op |-> "PUT /tasks",
             pc |-> IF IsAssignable(assignedUser) THEN "findUser" ELSE "write",
             id |-> id, completed |-> completed,
             assignedUser |-> IF IsAssignable(assignedUser) THEN assignedUser
                              ELSE EmptyId,
             assignedUserName |-> Unassigned,
             prevUser |-> tasks[id].assignedUser, status |-> 0]]
  /\ UNCHANGED <<users, tasks, nextUser, nextTask, usersRouter, last, requests,
                 posting>>

\* POST /tasks arrives with name and deadline.
TasksPostArrives(s, completed, assignedUser) ==
  /\ running[s] = NoRequest
  /\ running' = [running EXCEPT ![s] =
       [op |-> "POST /tasks",
        pc |-> IF IsAssignable(assignedUser) THEN "findUser" ELSE "write",
        id |-> 0, completed |-> completed,
        assignedUser |-> IF IsAssignable(assignedUser) THEN assignedUser
                         ELSE EmptyId,
        assignedUserName |-> Unassigned, prevUser |-> EmptyId, status |-> 0]]
  /\ UNCHANGED <<users, tasks, nextUser, nextTask, usersRouter, last, requests,
                 posting>>

\* User.findById(assignedUser).select('name'), in either handler
TasksFindUser(s) ==
  /\ running[s].pc = "findUser"
  /\ running' = [running EXCEPT ![s] =
       IF running[s].assignedUser \notin DOMAIN users
       THEN Answered(s, 400)
       ELSE [running[s] EXCEPT !.pc = "write",
               !.assignedUserName = users[running[s].assignedUser].name]]
  /\ UNCHANGED <<users, tasks, nextUser, nextTask, usersRouter, last, requests,
                 posting>>

\* Task.findByIdAndUpdate; `updated` is null when the task is gone, and
\* reading updated.assignedUser throws
TasksPutWrite(s) ==
  /\ running[s].op = "PUT /tasks"
  /\ running[s].pc = "write"
  /\ LET r == running[s]
     IN IF r.id \notin DOMAIN tasks
        THEN /\ running' = [running EXCEPT ![s] = Answered(s, 500)]
             /\ UNCHANGED tasks
        ELSE /\ tasks' = [tasks EXCEPT ![r.id] =
                            TaskDoc(r.completed, r.assignedUser, r.assignedUserName)]
             /\ running' = [running EXCEPT ![s] =
                   AfterWrite(r, asUniqueIdStrings(RemoveFromOf(r)), 200)]
  /\ UNCHANGED <<users, nextUser, nextTask, usersRouter, last, requests, posting>>

\* Task.create; syncPendingTasks is called when the task is assigned, with
\* nothing to remove
TasksPostWrite(s) ==
  /\ running[s].op = "POST /tasks"
  /\ running[s].pc = "write"
  /\ LET r == [running[s] EXCEPT !.id = nextTask]
     IN /\ tasks' = [t \in DOMAIN tasks \cup {nextTask} |->
                       IF t = nextTask
                       THEN TaskDoc(r.completed, r.assignedUser, r.assignedUserName)
                       ELSE tasks[t]]
        /\ nextTask' = nextTask + 1
        /\ running' = [running EXCEPT ![s] = AfterWrite(r, <<>>, 201)]
  /\ UNCHANGED <<users, nextUser, usersRouter, last, requests, posting>>

\* syncPendingTasks: User.updateMany with $pull
SyncPull(s) ==
  /\ running[s].pc = "pull"
  /\ LET r == running[s]
     IN /\ users' = PullFromUsers(users,
                       Range(asUniqueIdStrings(RemoveFromOf(r))), r.id)
        /\ running' = [running EXCEPT ![s] = AfterWrite(r, <<>>, 200)]
  /\ UNCHANGED <<tasks, nextUser, nextTask, usersRouter, last, requests, posting>>

\* syncPendingTasks: User.updateOne with $addToSet, then the response
SyncAdd(s) ==
  /\ running[s].pc = "add"
  /\ users' = AddToUser(users, running[s].assignedUser, running[s].id)
  /\ running' = [running EXCEPT ![s] =
       Answered(s, IF running[s].op = "POST /tasks" THEN 201 ELSE 200)]
  /\ UNCHANGED <<tasks, nextUser, nextTask, usersRouter, last, requests, posting>>

\* -------------------------------------------------------- PUT /users/:id
\* The two revisions (routes/users.js 66-80, unnamed/part_001 143-173) differ
\* in the filter of the task update: part_001 applies asUniqueIdStrings to the
\* list and skips the update when it is empty, which selects the same tasks;
\* routes/users.js hands req.body.pendingTasks to $in as it is, so without a
\* list the filter is { $in: undefined }: no task matches, and the driver
\* either runs that query or rejects it, after the user has been written.
PutStatuses(pendingTasks) ==
  IF usersRouter = Plain /\ pendingTasks = Absent THEN {200, 500} ELSE {200}

UsersPut(id, name, email, pendingTasks) ==
  /\ Serve
  /\ IF id \notin DOMAIN users
     THEN /\ last' = Err("PUT /users", 404, "User not found", id)
          /\ UNCHANGED <<users, tasks>>
     ELSE LET updatedUser ==
                UserDoc(IF name = NoField THEN users[id].name ELSE name,
                        IF email = NoField THEN users[id].email ELSE email,
                        IF pendingTasks = Absent THEN users[id].pendingTasks
                        ELSE pendingTasks)
              tids == IF pendingTasks = Absent THEN <<>>
                      ELSE asUniqueIdStrings(pendingTasks)
          IN /\ users' = [users EXCEPT ![id] = updatedUser]
             /\ tasks' = IF Len(tids) > 0
                         THEN AssignTasks(tasks, Range(tids), id, updatedUser.name)
                         ELSE tasks
             /\ \E st \in PutStatuses(pendingTasks) :
                  last' = Res("PUT /users", st,
                              IF st = 200 THEN "User updated" ELSE "Server error",
                              id, EmptyId, FALSE,
                              Cardinality(Range(tids) \cap DOMAIN tasks))
  /\ UNCHANGED <<nextUser, nextTask, usersRouter>>

\* UnassignTasksOf with a filter that matches no task
UnassignTasksOf_None(ts, id) == ts

\* UnassignTasksOf with completed: false added to the update
UnassignTasksOf_ResetCompleted(ts, id) ==
  [t \in DOMAIN ts |->
     IF ts[t].assignedUser = id
     THEN TaskDoc(FALSE, EmptyId, Unassigned)
     ELSE ts[t]]

\* Task.updateMany({assignedUser: id},
\*                 {assignedUser: '', assignedUserName: 'unassigned'})
UnassignTasksOf(ts, id) ==
  [t \in DOMAIN ts |->
     IF ts[t].assignedUser = id
     THEN [ts[t] EXCEPT !.assignedUser = EmptyId, !.assignedUserName = Unassigned]
     ELSE ts[t]]

\* ----------------------------------------------------- DELETE /users/:id
UsersDelete(id) ==
  /\ Serve
  /\ IF id \notin DOMAIN users
     THEN /\ last' = Err("DELETE /users", 404, "User not found", id)
          /\ UNCHANGED <<users, tasks>>
     ELSE /\ users' = [u \in DOMAIN users \ {id} |-> users[u]]
          /\ tasks' = UnassignTasksOf(tasks, id)
          /\ last' = Res("DELETE /users", 204, "User deleted", id, EmptyId, FALSE,
                         Cardinality({t \in DOMAIN tasks : tasks[t].assignedUser = id}))
  /\ UNCHANGED <<nextUser, nextTask, usersRouter>>

\* DELETE /users/:id: User.findByIdAndDelete
UsersDeleteRemove(s, id) ==
  /\ running[s] = NoRequest
  /\ IF id \notin DOMAIN users
     THEN /\ running' = [running EXCEPT ![s] =
               [NoRequest EXCEPT !.op = "DELETE /users", !.pc = "done",
                                 !.id = id, !.status = 404]]
          /\ UNCHANGED users
     ELSE /\ users' = [u \in DOMAIN users \ {id} |-> users[u]]
          /\ running' = [running EXCEPT ![s] =
               [NoRequest EXCEPT !.op = "DELETE /users", !.pc = "cascade",
                                 !.id = id]]
  /\ UNCHANGED <<tasks, nextUser, nextTask, usersRouter, last, requests, posting>>

\* DELETE /users/:id: Task.updateMany({assignedUser: id}), then the response
UsersDeleteCascade(s) ==
  /\ running[s].pc = "cascade"
  /\ tasks' = UnassignTasksOf(tasks, running[s].id)
  /\ running' = [running EXCEPT ![s] = Answered(s, 204)]
  /\ UNCHANGED <<users, nextUser, nextTask, usersRouter, last, requests, posting>>

\* ----------------------------------------------------------- the inputs
\* Ids a caller can name: those of the stored documents, and one that
\* matches none (the next id the store will hand out).
UserIdInputs == DOMAIN users \cup {nextUser}
TaskIdInputs == DOMAIN tasks \cup {nextTask}
AssignedInputs == {NonString, EmptyId} \cup UserIdInputs
BodyLists == UNION {[1..n -> TaskIdInputs] : n \in 0..MaxList} \cup {Absent}

\* the request budget is not used up
CanServe == requests < MaxRequests

Next ==
  \/ CanServe /\ \E c \in BOOLEAN, au \in AssignedInputs, aun \in Names :
       TasksPost(TRUE, c, au, aun)
  \/ CanServe /\ TasksPost(FALSE, FALSE, EmptyId, Unassigned)
  \/ CanServe /\ \E id \in TaskIdInputs, c \in BOOLEAN, au \in AssignedInputs,
                    aun \in Names :
       TasksPut(id, TRUE, c, au, aun)
  \/ CanServe /\ \E id \in TaskIdInputs :
       TasksPut(id, FALSE, FALSE, EmptyId, Unassigned)
  \/ CanServe /\ \E id \in TaskIdInputs : TasksDelete(id)
  \/ CanServe /\ usersRouter = Plain
       /\ \E n \in Names, e \in Emails, pt \in BodyLists : UsersPostPlain(n, e, pt)
  \/ CanServe /\ usersRouter = Plain
       /\ \E n \in {Missing, "ann"}, e \in {Missing, "a@x"} :
            (n = Missing \/ e = Missing) /\ UsersPostPlain(n, e, Absent)
  \/ CanServe /\ usersRouter = Tx
       /\ \E n \in Names, e \in Emails, pt \in BodyLists : UsersPostTx(n, e, pt)
  \/ CanServe /\ usersRouter = Tx
       /\ \E n \in {Missing, "ann"}, e \in {Missing, "a@x"} :
            (n = Missing \/ e = Missing) /\ UsersPostTx(n, e, Absent)
  \/ CanServe /\ \E id \in UserIdInputs, n \in Names \cup {NoField},
                    pt \in BodyLists :
       UsersPut(id, n, NoField, pt)
  \/ CanServe /\ \E id \in UserIdInputs, e \in Emails :
       UsersPut(id, NoField, e, Absent)
  \/ CanServe /\ \E id \in UserIdInputs : UsersDelete(id)

Spec == Init /\ [][Next]_vars

\* POST /tasks and POST /users, one request at a time, the transaction of
\* unnamed/part_001 being a step after the checks that precede it: it runs
\* to its end, or one of its store calls, its commit or the read after it
\* fails.
NextFaults ==
  \/ CanServe /\ posting = Idle
       /\ \E c \in BOOLEAN, au \in AssignedInputs, aun \in Names :
            TasksPost(TRUE, c, au, aun)
  \/ CanServe /\ posting = Idle /\ usersRouter = Plain
       /\ \E n \in Names, e \in Emails : UsersPostPlain(n, e, Absent)
  \/ CanServe /\ posting = Idle /\ usersRouter = Tx
       /\ \E n \in Names \cup {Missing}, e \in Emails \cup {Missing} :
            UsersPostTx(n, e, Absent)
  \/ CanServe /\ usersRouter = Tx
       /\ \E n \in Names, e \in Emails, pt \in BodyLists :
            UsersPostTxBegin(n, e, pt)
  \/ UsersPostTxRuns
  \/ \E done \in 0..4 : UsersPostTxAborts(done)
  \/ UsersPostTxReadFails

SpecFaults == Init /\ [][NextFaults]_vars

\* Every request, with POST /users of routes/users.js also served one store
\* call at a time while other requests are served.  The transaction of
\* unnamed/part_001 shows its writes to other requests at its commit only:
\* UsersPostTx stays one step.
NextConc ==
  \/ Next
  \/ CanServe /\ usersRouter = Plain
       /\ \E n \in Names, e \in Emails, pt \in BodyLists :
            UsersPostPlainSave(n, e, pt)
  \/ UsersPostPlainAssign
  \/ UsersPostPlainRespond

SpecConc == Init /\ [][NextConc]_vars

\* Requests on the task routes and POST /users only.
NextSync ==
  \/ CanServe /\ \E c \in BOOLEAN, au \in AssignedInputs, aun \in Names :
       TasksPost(TRUE, c, au, aun)
  \/ CanServe /\ \E id \in TaskIdInputs, c \in BOOLEAN, au \in AssignedInputs,
                    aun \in Names :
       TasksPut(id, TRUE, c, au, aun)
  \/ CanServe /\ \E id \in TaskIdInputs : TasksDelete(id)
  \/ CanServe /\ usersRouter = Plain
       /\ \E n \in Names, e \in Emails, pt \in BodyLists : UsersPostPlain(n, e, pt)
  \/ CanServe /\ usersRouter = Tx
       /\ \E n \in Names, e \in Emails, pt \in BodyLists : UsersPostTx(n, e, pt)

SpecSync == Init /\ [][NextSync]_vars

\* Requests on the task routes, and POST /users without a list; one request
\* more than in Spec, so that a task of one user can be given to another.
CanServeTasks == requests < MaxRequests + 1

NextTasks ==
  \/ CanServeTasks /\ \E c \in BOOLEAN, au \in AssignedInputs, aun \in Names :
       TasksPost(TRUE, c, au, aun)
  \/ CanServeTasks /\ \E id \in TaskIdInputs, c \in BOOLEAN,
                         au \in AssignedInputs, aun \in Names :
       TasksPut(id, TRUE, c, au, aun)
  \/ CanServeTasks /\ \E id \in TaskIdInputs : TasksDelete(id)
  \/ CanServeTasks /\ usersRouter = Plain
       /\ \E n \in Names, e \in Emails : UsersPostPlain(n, e, Absent)
  \/ CanServeTasks /\ usersRouter = Tx
       /\ \E n \in Names, e \in Emails : UsersPostTx(n, e, Absent)

SpecTasks == Init /\ [][NextTasks]_vars

\* The same requests, and task requests whose sync step fails at a store call.
NextStops ==
  \/ NextTasks
  \/ CanServeTasks /\ \E c \in BOOLEAN, au \in DOMAIN users, aun \in Names,
                         done \in {0, 1} :
       TasksPostStops(c, au, aun, done)
  \/ CanServeTasks /\ \E id \in DOMAIN tasks, c \in BOOLEAN,
                         au \in AssignedInputs, aun \in Names, done \in {0, 1} :
       TasksPutStops(id, c, au, aun, done)
  \/ CanServeTasks /\ \E id \in DOMAIN tasks : TasksDeleteStops(id)

SpecStops == Init /\ [][NextStops]_vars

\* ------------------------------------------- two requests at the same time
\* Users and tasks are created one request at a time, by POST /users with no
\* list and POST /tasks; then two requests run, a store call at a time.
NoneRunning == running = [s \in Slots |-> NoRequest]

NextSetup ==
  \/ CanServe /\ NoneRunning /\ usersRouter = Plain
       /\ \E n \in Names, e \in Emails : UsersPostPlain(n, e, Absent)
  \/ CanServe /\ NoneRunning /\ usersRouter = Tx
       /\ \E n \in Names, e \in Emails : UsersPostTx(n, e, Absent)
  \/ CanServe /\ NoneRunning
       /\ \E c \in BOOLEAN, au \in UserIdInputs \cup {EmptyId} :
            TasksPost(TRUE, c, au, Unassigned)

\* two PUT /tasks/:id requests on the same task (slot 1 arrives first)
NextPutRace ==
  \/ NextSetup
  \/ \E s \in Slots, id \in TaskIdInputs, c \in BOOLEAN,
        au \in UserIdInputs \cup {EmptyId} :
       /\ s = 2 => (running[1] # NoRequest /\ id = running[1].id)
       /\ TasksPutRead(s, id, c, au)
  \/ \E s \in Slots : TasksFindUser(s)
  \/ \E s \in Slots : TasksPutWrite(s)
  \/ \E s \in Slots : SyncPull(s)
  \/ \E s \in Slots : SyncAdd(s)

SpecPutRace == Init /\ [][NextPutRace]_vars

\* a POST /tasks or PUT /tasks/:id in slot 1 and a DELETE /users/:id in slot 2
NextDeleteRace ==
  \/ NextSetup
  \/ \E c \in BOOLEAN, au \in UserIdInputs \cup {EmptyId} :
       TasksPostArrives(1, c, au)
  \/ \E id \in TaskIdInputs, c \in BOOLEAN, au \in UserIdInputs \cup {EmptyId} :
       TasksPutRead(1, id, c, au)
  \/ TasksFindUser(1)
  \/ TasksPostWrite(1)
  \/ TasksPutWrite(1)
  \/ SyncPull(1)
  \/ SyncAdd(1)
  \/ \E id \in UserIdInputs : UsersDeleteRemove(2, id)
  \/ UsersDeleteCascade(2)

SpecDeleteRace == Init /\ [][NextDeleteRace]_vars

\* ------------------------------------------- syncPendingTasks on its own
\* Two users hold any lists over the ids of two stored tasks, one pending
\* and one completed (POST /tasks and PUT /users/:id lead to every such
\* store), and the helper is applied once to any arguments.
PendingLists == UNION {[1..n -> 1..2] : n \in 0..MaxList}

InitHelper ==
  /\ users \in {<<UserDoc("ann", "a@x", l1), UserDoc("ann", "b@x", l2)>> :
                  l1 \in PendingLists, l2 \in PendingLists}
  /\ tasks = <<TaskDoc(FALSE, 1, "ann"), TaskDoc(TRUE, 2, "ann")>>
  /\ nextUser = 3
  /\ nextTask = 3
  /\ usersRouter \in {Plain, Tx}
  /\ requests = 0
  /\ last = Err("none", 0, "", 0)
  /\ posting = Idle
  /\ running = [s \in Slots |-> NoRequest]

\* removeFromUserIds: ids of stored users, of no user, and falsy entries
RemoveLists == UNION {[1..n -> UserIdInputs \cup {EmptyId}] : n \in 0..MaxList}

callSyncPendingTasks(tid, completed, addForUserId, removeFromUserIds) ==
  /\ requests = 0
  /\ requests' = 1
  /\ users' = syncPendingTasks(users, tid, completed, addForUserId,
                               removeFromUserIds)
  /\ last' = Res("syncPendingTasks", 0, "", tid, addForUserId, completed,
                 Len(removeFromUserIds))
  /\ UNCHANGED <<tasks, nextUser, nextTask, usersRouter, running, posting>>

NextHelper ==
  \E tid \in TaskIdInputs, completed \in BOOLEAN,
     addFor \in UserIdInputs \cup {EmptyId}, removeFrom \in RemoveLists :
    callSyncPendingTasks(tid, completed, addFor, removeFrom)

SpecHelper == InitHelper /\ [][NextHelper]_vars

\* ================================================================ claims
\* POST /users as served by whichever revision is mounted
UsersPost(name, email, pendingTasks) ==
  \/ UsersPostPlain(name, email, pendingTasks)
  \/ UsersPostTx(name, email, pendingTasks)

\* number of entries of s equal to x
Count(s, x) == Cardinality({i \in 1..Len(s) : s[i] = x})

\* the pending-list relation between user u and task t
PendingAgrees(u, t) ==
  (t \in Range(users[u].pendingTasks))
    <=> (tasks[t].assignedUser = u /\ ~tasks[t].completed)

\* C1: after any sequence of task create/replace/delete and user-create
\* requests, a task id is in a user's pendingTasks exactly when the task is
\* assigned to that user and not completed.
C1_PendingListInvariant ==
  \A u \in DOMAIN users : \A t \in DOMAIN tasks : PendingAgrees(u, t)

\* The same relation where the transactional revision is mounted.
PendingListInvariantTx ==
  usersRouter = Tx => C1_PendingListInvariant

\* C2: a task has assignedUser = "" exactly when its assignedUserName is
\* "unassigned".
C2_UnassignedIffName ==
  \A t \in DOMAIN tasks :
    (tasks[t].assignedUser = EmptyId) <=> (tasks[t].assignedUserName = Unassigned)

\* a list names a task that does not exist or one that is completed
BadBatch(pt) ==
  /\ pt # Absent
  /\ \E i \in 1..Len(pt) :
       pt[i] \notin DOMAIN tasks \/ tasks[pt[i]].completed

\* C3: POST /users with a pendingTasks list naming an unknown or a completed
\* task answers 400 and leaves users and tasks as they were.
C3_BadBatchRejected ==
  [][\A n \in Names, e \in Emails, pt \in BodyLists :
       (UsersPost(n, e, pt) /\ BadBatch(pt))
         => (last'.status = 400 /\ users' = users /\ tasks' = tasks)]_vars

\* C4: a successful POST /users whose list is one pending task X of user A
\* leaves X owned by the new user B (id, name, not completed), X out of
\* A.pendingTasks and B.pendingTasks = [X].
C4_BatchReassigns ==
  [][\A n \in Names, e \in Emails, x \in DOMAIN tasks, a \in DOMAIN users :
       ( /\ UsersPost(n, e, <<x>>)
         /\ last'.status = 201
         /\ tasks[x].assignedUser = a
         /\ ~tasks[x].completed
         /\ x \in Range(users[a].pendingTasks) )
         => LET b == last'.id
            IN /\ tasks'[x] = TaskDoc(FALSE, b, n)
               /\ x \notin Range(users'[a].pendingTasks)
               /\ users'[b].pendingTasks = <<x>>]_vars

\* C6: no user's pendingTasks holds the same task id twice.
C6_NoDuplicatePending ==
  \A u \in DOMAIN users :
    \A i, j \in 1..Len(users[u].pendingTasks) :
      users[u].pendingTasks[i] = users[u].pendingTasks[j] => i = j

\* C5: a task created pending for user A, who had no pending tasks, makes
\* A.pendingTasks = [X]; a PUT that completes X (same user) takes X out, the
\* list becoming empty when it was [X]; a PUT that makes X not completed
\* again (same user) puts X back.
C5_CreateCompleteReopen ==
  [][ /\ last'.op = "POST /tasks" =>
           \A a \in DOMAIN users, aun \in Names :
             (TasksPost(TRUE, FALSE, a, aun) /\ users[a].pendingTasks = <<>>)
               => users'[a].pendingTasks = <<last'.id>>
      /\ last'.op = "PUT /tasks" =>
           \A x \in DOMAIN tasks, a \in DOMAIN users, aun \in Names :
             /\ (TasksPut(x, TRUE, TRUE, a, aun) /\ tasks[x].assignedUser = a)
                  => /\ x \notin Range(users'[a].pendingTasks)
                     /\ users[a].pendingTasks = <<x>>
                          => users'[a].pendingTasks = <<>>
             /\ (TasksPut(x, TRUE, FALSE, a, aun) /\ tasks[x].assignedUser = a
                   /\ tasks[x].completed)
                  => x \in Range(users'[a].pendingTasks) ]_vars

\* X was completed, a PUT with the same user has reopened it, and it is the
\* one entry of that user's list
C5_Witness ==
  /\ last.op = "PUT /tasks" /\ last.status = 200
  /\ last.prevCompleted
  /\ last.prevUser # EmptyId
  /\ tasks[last.id].assignedUser = last.prevUser
  /\ ~tasks[last.id].completed
  /\ users[last.prevUser].pendingTasks = <<last.id>>

\* C7: syncPendingTasks applied twice with the same not-completed task and
\* the same addForUserId, no removals, leaves the list as the first call
\* left it, holding the task id exactly once.
C7_AddIdempotent ==
  \A u \in DOMAIN users : \A t \in DOMAIN tasks :
    ~tasks[t].completed =>
      LET once  == syncPendingTasks(users, t, FALSE, u, <<>>)
          twice == syncPendingTasks(once, t, FALSE, u, <<>>)
      IN /\ twice[u].pendingTasks = once[u].pendingTasks
         /\ Count(twice[u].pendingTasks, t) = 1

\* C8: POST /tasks or PUT /tasks/:id naming, as assignedUser, a non-empty
\* string that is no user's id answers 400 and changes no task and no user.
C8_UnknownUserRejected ==
  [][ /\ last'.op = "POST /tasks" =>
           \A h \in BOOLEAN, c \in BOOLEAN, au \in UserIdInputs \ DOMAIN users,
              aun \in Names :
             TasksPost(h, c, au, aun)
               => (last'.status = 400 /\ tasks' = tasks /\ users' = users)
      /\ last'.op = "PUT /tasks" =>
           \A x \in DOMAIN tasks, h \in BOOLEAN, c \in BOOLEAN,
              au \in UserIdInputs \ DOMAIN users, aun \in Names :
             TasksPut(x, h, c, au, aun)
               => (last'.status = 400 /\ tasks' = tasks /\ users' = users) ]_vars

\* a PUT on a stored task has been refused for its assignedUser
C8_Witness ==
  /\ last.op = "PUT /tasks" /\ last.status = 400
  /\ last.message = "assignedUser not found"
  /\ last.id \in DOMAIN tasks

\* C9: a successful DELETE /users/:id resets assignedUser and
\* assignedUserName on the tasks that were assigned to that user, keeps their
\* completed flag, and changes no other task and no other user.
C9_UserDeleteCascade ==
  [][ \A id \in DOMAIN users :
        (last'.op = "DELETE /users" /\ UsersDelete(id)) =>
          /\ last'.status = 204
          /\ DOMAIN tasks' = DOMAIN tasks
          /\ \A t \in DOMAIN tasks :
               IF tasks[t].assignedUser = id
               THEN tasks'[t] = TaskDoc(tasks[t].completed, EmptyId, Unassigned)
               ELSE tasks'[t] = tasks[t]
          /\ DOMAIN users' = DOMAIN users \ {id}
          /\ \A u \in DOMAIN users \ {id} : users'[u] = users[u] ]_vars

\* a user has been deleted, a completed task of theirs is now unassigned
\* and still completed, and another task or another user is there
C9_Witness ==
  /\ last.op = "DELETE /users" /\ last.status = 204
  /\ last.matched > 0
  /\ \E t \in DOMAIN tasks :
       tasks[t] = TaskDoc(TRUE, EmptyId, Unassigned)

\* s without its entries equal to x
Without(s, x) == SelectSeq(s, LAMBDA y : y # x)

\* C10: a successful DELETE /tasks/:id of a task with an assigned user takes
\* the task id out of that user's pendingTasks and leaves the other entries
\* of that list and every other user as they were.
C10_TaskDeletePulls ==
  [][ \A x \in DOMAIN tasks :
        (last'.op = "DELETE /tasks" /\ TasksDelete(x)
           /\ tasks[x].assignedUser \in DOMAIN users) =>
          LET a == tasks[x].assignedUser
          IN /\ last'.status = 204
             /\ x \notin DOMAIN tasks'
             /\ users'[a] = [users[a] EXCEPT
                               !.pendingTasks = Without(users[a].pendingTasks, x)]
             /\ DOMAIN users' = DOMAIN users
             /\ \A u \in DOMAIN users \ {a} : users'[u] = users[u] ]_vars

\* a pending task of a user has been deleted and the user's list still has
\* another entry
C10_Witness ==
  /\ last.op = "DELETE /tasks" /\ last.status = 204
  /\ last.prevUser \in DOMAIN users
  /\ ~last.prevCompleted
  /\ users[last.prevUser].pendingTasks # <<>>
  /\ last.id \notin Range(users[last.prevUser].pendingTasks)

\* C11: no two distinct user records hold the same email, whatever user
\* create and user update requests have been served.
C11_UniqueEmails ==
  \A u, v \in DOMAIN users :
    users[u].email = users[v].email => u = v

\* C13: a successful POST /tasks or PUT /tasks/:id stores, for an assignedUser
\* that is a non-empty string, that id and the name the user has at the write,
\* and for an empty or non-string assignedUser stores "" and "unassigned",
\* whatever assignedUserName the caller sent.
C13_NameResolved ==
  [][ /\ last'.op = "POST /tasks" =>
           \A c \in BOOLEAN, au \in AssignedInputs, aun \in Names :
             (TasksPost(TRUE, c, au, aun) /\ last'.status = 201)
               => LET t == tasks'[last'.id]
                  IN IF au \in DOMAIN users
                     THEN t.assignedUser = au /\ t.assignedUserName = users[au].name
                     ELSE t.assignedUser = EmptyId /\ t.assignedUserName = Unassigned
      /\ last'.op = "PUT /tasks" =>
           \A x \in DOMAIN tasks, c \in BOOLEAN, au \in AssignedInputs, aun \in Names :
             (TasksPut(x, TRUE, c, au, aun) /\ last'.status = 200)
               => LET t == tasks'[x]
                  IN IF au \in DOMAIN users
                     THEN t.assignedUser = au /\ t.assignedUserName = users[au].name
                     ELSE t.assignedUser = EmptyId /\ t.assignedUserName = Unassigned ]_vars

\* a PUT has assigned a task to a user named "ann"; the bodies that led
\* here include one carrying "unassigned" as assignedUserName
C13_Witness ==
  /\ last.op = "PUT /tasks" /\ last.status = 200
  /\ tasks[last.id].assignedUser \in DOMAIN users
  /\ tasks[last.id].assignedUserName = "ann"
  /\ users[tasks[last.id].assignedUser].name = "ann"

\* C14: a successful PUT /tasks/:id served in a state where the pending-list
\* relation holds leaves the task id in the list of the new assignedUser N
\* exactly when N is non-empty and the task is not completed, out of the list
\* of the previous assignedUser P when P differs from N, and every other
\* user and every other entry as they were; the relation holds afterwards.
C14_PutMatchesReference ==
  [][ last'.op = "PUT /tasks" =>
        \A x \in DOMAIN tasks, c \in BOOLEAN, au \in AssignedInputs, aun \in Names :
          ( /\ TasksPut(x, TRUE, c, au, aun)
            /\ last'.status = 200
            /\ C1_PendingListInvariant )
            => LET P == tasks[x].assignedUser
                   N == tasks'[x].assignedUser
               IN /\ tasks'[x].completed = c
                  /\ N # EmptyId =>
                       /\ (x \in Range(users'[N].pendingTasks)) <=> ~c
                       /\ Count(users'[N].pendingTasks, x) <= 1
                  /\ (P # N /\ P \in DOMAIN users) =>
                       x \notin Range(users'[P].pendingTasks)
                  /\ DOMAIN users' = DOMAIN users
                  /\ \A u \in DOMAIN users \ {P, N} : users'[u] = users[u]
                  /\ \A u \in DOMAIN users :
                       /\ Without(users'[u].pendingTasks, x)
                            = Without(users[u].pendingTasks, x)
                       /\ users'[u].name = users[u].name
                       /\ users'[u].email = users[u].email
                  /\ C1_PendingListInvariant' ]_vars

\* a PUT has moved a pending task from one user to another: it is in the
\* new owner's list and not in the previous owner's
C14_Witness ==
  /\ last.op = "PUT /tasks" /\ last.status = 200
  /\ last.prevUser \in DOMAIN users
  /\ ~last.prevCompleted
  /\ tasks[last.id].assignedUser \in DOMAIN users \ {last.prevUser}
  /\ ~tasks[last.id].completed
  /\ last.id \in Range(users[tasks[last.id].assignedUser].pendingTasks)
  /\ last.id \notin Range(users[last.prevUser].pendingTasks)

\* C15: syncPendingTasks with a completed task adds the task id to no list,
\* addForUserId set or not, and still takes it out of the list of every user
\* named in removeFromUserIds (repeated and falsy entries make no
\* difference); with a task that is not completed, a user named both in
\* removeFromUserIds and as addForUserId ends with the id in its list.
\* Stated of every store the helper is about to be called on.
C15_CompletedNeverAdded ==
  requests = 0 =>
  \A tid \in TaskIdInputs, addFor \in UserIdInputs \cup {EmptyId},
     removeFrom \in RemoveLists :
    LET done == syncPendingTasks(users, tid, TRUE, addFor, removeFrom)
        open == syncPendingTasks(users, tid, FALSE, addFor, removeFrom)
    IN /\ DOMAIN done = DOMAIN users
       /\ \A u \in DOMAIN users :
            IF u \in Range(removeFrom)
            THEN done[u] = [users[u] EXCEPT
                              !.pendingTasks = Without(users[u].pendingTasks, tid)]
            ELSE done[u] = users[u]
       /\ (addFor \in DOMAIN users /\ addFor \in Range(removeFrom))
            => Count(open[addFor].pendingTasks, tid) = 1

\* the helper has been called for a completed task with addForUserId set
\* and the same user twice in removeFromUserIds: the id is not in that
\* user's list
C15_Witness ==
  /\ last.op = "syncPendingTasks"
  /\ last.prevCompleted
  /\ last.prevUser \in DOMAIN users
  /\ last.matched = 2
  /\ last.id \in DOMAIN tasks
  /\ last.id \notin Range(users[last.prevUser].pendingTasks)
  /\ \E u \in DOMAIN users \ {last.prevUser} :
       last.id \in Range(users[u].pendingTasks)

\* C16: a successful POST /tasks whose task is stored unassigned, or assigned
\* and completed, leaves every user record, pendingTasks included, as it was.
C16_CreateLeavesLists ==
  [][ last'.op = "POST /tasks" =>
        \A c \in BOOLEAN, au \in AssignedInputs, aun \in Names :
          ( /\ TasksPost(TRUE, c, au, aun)
            /\ last'.status = 201
            /\ (tasks'[last'.id].assignedUser = EmptyId \/ tasks'[last'.id].completed) )
            => users' = users ]_vars

\* a completed task has been created for a user who has a pending task
C16_Witness ==
  /\ last.op = "POST /tasks" /\ last.status = 201
  /\ tasks[last.id].completed
  /\ tasks[last.id].assignedUser \in DOMAIN users
  /\ users[tasks[last.id].assignedUser].pendingTasks # <<>>
  /\ last.id \notin Range(users[tasks[last.id].assignedUser].pendingTasks)

\* C17: a successful PUT /users/:id with a pendingTasks list sets assignedUser
\* to the id and assignedUserName to the user's name after the update on the
\* stored tasks named in the list, and on nothing else: the other tasks are
\* as they were, no completed flag changes, no other user changes.
C17_PutForwardOnly ==
  [][ (last'.op = "PUT /users" /\ last'.status = 200 /\ last'.id \in DOMAIN users) =>
        LET id == last'.id
            \* the handler stores the request's list as it came
            pt == users'[id].pendingTasks
        IN \A n \in Names \cup {NoField} :
             UsersPut(id, n, NoField, pt)
               => /\ DOMAIN tasks' = DOMAIN tasks
                  /\ \A t \in DOMAIN tasks :
                       IF t \in Range(pt)
                       THEN tasks'[t] = TaskDoc(tasks[t].completed, id, users'[id].name)
                       ELSE tasks'[t] = tasks[t]
                  /\ users'[id].name = (IF n = NoField THEN users[id].name ELSE n)
                  /\ DOMAIN users' = DOMAIN users
                  /\ \A u \in DOMAIN users \ {id} : users'[u] = users[u] ]_vars

\* a user update has taken a completed task into its list: the task is the
\* user's, under the user's name, and still completed
C17_Witness ==
  /\ last.op = "PUT /users" /\ last.status = 200
  /\ last.matched > 0
  /\ \E t \in DOMAIN tasks :
       /\ tasks[t] = TaskDoc(TRUE, last.id, users[last.id].name)
       /\ t \in Range(users[last.id].pendingTasks)

\* C20: with requests served one at a time, every task with a non-empty
\* assignedUser names a user record that exists.
C20_AssignedUserExists ==
  \A t \in DOMAIN tasks :
    tasks[t].assignedUser # EmptyId => tasks[t].assignedUser \in DOMAIN users

\* a user who had a pending task has been deleted; the task is there,
\* unassigned
C20_Witness ==
  /\ last.op = "DELETE /users" /\ last.status = 204
  /\ last.matched > 0
  /\ last.id \notin DOMAIN users
  /\ \E t \in DOMAIN tasks : tasks[t] = TaskDoc(FALSE, EmptyId, Unassigned)

\* the pendingTasks of user u disagree with the task collection about task
\* id t (an id of no stored task belongs in no list)
StalePair(u, t) ==
  (t \in Range(users[u].pendingTasks))
    # (t \in DOMAIN tasks /\ tasks[t].assignedUser = u /\ ~tasks[t].completed)

\* the same of the state a step leads to
StalePairAfter(u, t) ==
  (t \in Range(users'[u].pendingTasks))
    # (t \in DOMAIN tasks' /\ tasks'[t].assignedUser = u /\ ~tasks'[t].completed)

Stale == \E u \in DOMAIN users : \E t \in 1..(nextTask - 1) : StalePair(u, t)

\* C18: a POST, PUT or DELETE on the task routes that stops after its task
\* write and before its pendingTasks update leaves a list that disagrees with
\* the tasks (for a PUT: when the task is pending for another user, or is
\* pending on one side of the write only), and nothing repairs it on its own:
\* a pair that disagrees agrees again only through a later PUT or DELETE
\* request on that very task.
C18_StaleAfterStop ==
  [][ /\ last'.status = 500 =>
           /\ \A c \in BOOLEAN, au \in DOMAIN users, aun \in Names :
                TasksPostStops(c, au, aun, 0) => StalePairAfter(au, last'.id)
           /\ \A x \in DOMAIN tasks :
                (TasksDeleteStops(x) /\ tasks[x].assignedUser \in DOMAIN users
                   /\ x \in Range(users[tasks[x].assignedUser].pendingTasks))
                  => StalePairAfter(tasks[x].assignedUser, x)
           /\ \A x \in DOMAIN tasks, c \in BOOLEAN, au \in AssignedInputs,
                 aun \in Names :
                (TasksPutStops(x, c, au, aun, 0) /\ ~Stale)
                  => LET P == tasks[x].assignedUser
                         N == tasks'[x].assignedUser
                         wasPending == P # EmptyId /\ ~tasks[x].completed
                         isPending  == N # EmptyId /\ ~c
                     IN Stale' <=> \/ wasPending # isPending
                                   \/ wasPending /\ isPending /\ P # N
      /\ \A u \in DOMAIN users, t \in 1..(nextTask - 1) :
           (StalePair(u, t) /\ ~StalePairAfter(u, t))
             => /\ last'.op \in {"PUT /tasks", "DELETE /tasks"}
                /\ last'.id = t ]_vars

\* a task request has stopped before its list update, a list disagrees with
\* the tasks, and a request served after it has left the disagreement there
C18_Witness ==
  /\ Stale
  /\ last.status # 500
  /\ last.op \in {"POST /tasks", "PUT /tasks", "DELETE /tasks"}

\* C19: in POST /users of the transactional revision, a list naming an
\* unknown or a completed task is answered 400, as a missing name or email
\* and a taken email are; a store call that fails in the transaction or at
\* its commit is answered 500 "Server error"; in each case users and tasks
\* are left as they were.
C19_TxFailureMapping ==
  [][ /\ posting.pc = "tx" =>
           /\ (UsersPostTxRuns /\ BadBatch(posting.list))
                => (last'.status = 400 /\ users' = users /\ tasks' = tasks)
           /\ \A done \in 0..4 :
                UsersPostTxAborts(done)
                  => /\ last'.status = 500 /\ last'.message = "Server error"
                     /\ users' = users /\ tasks' = tasks
      /\ (posting = Idle /\ usersRouter = Tx /\ last'.op = "POST /users") =>
           \A n \in Names \cup {Missing}, e \in Emails \cup {Missing} :
             ( /\ UsersPostTx(n, e, Absent)
               /\ (n = Missing \/ e = Missing \/ EmailTaken(users, e)) )
               => (last'.status = 400 /\ users' = users /\ tasks' = tasks) ]_vars

\* a batch naming the pending task of a user has failed in its transaction:
\* the answer is 500, no user has been added and the task is its owner's
C19_Witness ==
  /\ usersRouter = Tx
  /\ posting = Idle
  /\ last.op = "POST /users" /\ last.status = 500 /\ last.id = 0
  /\ last.matched > 0
  /\ Cardinality(DOMAIN users) = 1
  /\ Cardinality(DOMAIN tasks) = 1
  /\ \E u \in DOMAIN users : \E t \in DOMAIN tasks :
       tasks[t].assignedUser = u /\ t \in Range(users[u].pendingTasks)

\* C12: POST /users applies its batch as one unit: once the user is stored
\* every stored task of its list is assigned to it, and once the tasks are
\* assigned no other user lists a task that is assigned to the new user.
C12_BatchAtomic ==
  /\ (posting.pc = "saved" /\ posting.uid \in DOMAIN users)
       => \A t \in Range(posting.list) \cap DOMAIN tasks : tasks[t].assignedUser = posting.uid
  /\ posting.pc = "assigned"
       => \A t \in Range(posting.list) \cap DOMAIN tasks :
            tasks[t].assignedUser = posting.uid
              => \A u \in DOMAIN users \ {posting.uid} : t \notin Range(users[u].pendingTasks)

\* C21: with requests served one at a time, every id in a user's
\* pendingTasks is the id of a stored task.
C21_NoDanglingPending ==
  \A u \in DOMAIN users :
    \A t \in Range(users[u].pendingTasks) : t \in DOMAIN tasks

\* C22: once two PUT /tasks/:id requests on the same task, run at the same
\* time, have both answered, the id of the task is in the pendingTasks of
\* its assignedUser and of nobody else if it is not completed, and in no
\* list if it is completed or unassigned.
C22_ConcurrentPutsKeepInvariant ==
  ( /\ \A s \in Slots : running[s].op = "PUT /tasks" /\ running[s].pc = "done"
    /\ running[1].id = running[2].id
    /\ running[1].id \in DOMAIN tasks )
    => LET t == running[1].id
       IN \A u \in DOMAIN users :
            t \in Range(users[u].pendingTasks)
              <=> (~tasks[t].completed /\ tasks[t].assignedUser = u)

\* C23: once a POST /tasks or PUT /tasks/:id that assigns a task to user U
\* and a DELETE /users/U, run at the same time, have both answered, no task
\* has assignedUser = U.
C23_NoTaskOfDeletedUser ==
  ( /\ running[1].pc = "done"
    /\ running[1].assignedUser = running[2].id
    /\ running[2].op = "DELETE /users" /\ running[2].pc = "done"
    /\ running[2].status = 204 )
    => \A t \in DOMAIN tasks : tasks[t].assignedUser # running[2].id
====
